---- MODULE Spec2Model ----
(***************************************************************************)
(* PokeFamilyDex.py: evolution families, merged with their form variants,  *)
(* filtered by SKIP_PATTERNS, ordered by (region priority, National Dex    *)
(* number, name) inside a stage and by the Dex number of the first member  *)
(* across families.                                                        *)
(*                                                                         *)
(* Identities are strings; `pattern in name`, str.split and re.split are   *)
(* modelled character by character with Len and SubSeq.                    *)
(***************************************************************************)
EXTENDS Integers, Sequences, FiniteSets, TLC

VARIABLES
    chains,              \* get_all_evolution_chains(): the chain trees, in enumeration order
    dex_down,            \* data source: species whose pokedex lookup yields no national entry
    var_down,            \* data source: species whose varieties request raises
    species_cache_file,  \* content of species_cache.json
    variant_cache_file,  \* content of variant_cache.json
    species_cache,       \* in-memory rank table
    variant_cache,       \* in-memory variant table
    pc,                  \* position of main / of the rank-resolver driver
    i,                   \* main's loop variable (index of the chain in hand)
    queue,               \* parse_evolution_chain: work queue of <<node, stage>>
    stages,              \* parse_evolution_chain: stage -> list of names
    visited,             \* the <<node, stage>> pairs popped so far, in order
    dex_num,             \* main: local of the last successful iteration
    species_list,        \* main: local of the last successful iteration
    all_species,         \* main: list of <<dex_num, species_list>>
    errors,              \* main: the "[i/n] Error: e" lines printed
    report,              \* pokedex_by_family.txt: the names whose labels were written
    call                 \* rank-resolver driver: the last call and what it returned

vars == <<chains, dex_down, var_down, species_cache_file, variant_cache_file,
          species_cache, variant_cache, pc, i, queue, stages, visited,
          dex_num, species_list, all_species, errors, report, call>>

-----------------------------------------------------------------------------
(* Strings *)

\* Characters in code-point order ('-' < digits < lower-case letters).
Alphabet == "-0123456789abcdefghijklmnopqrstuvwxyz"

Ord(c) == CHOOSE k \in 1..Len(Alphabet) : SubSeq(Alphabet, k, k) = c

Min(S) == CHOOSE m \in S : \A n \in S : m <= n

Range(s) == { s[k] : k \in 1..Len(s) }

\* p occurs in s at position k
OccursAt(p, s, k) == /\ k + Len(p) - 1 <= Len(s)
                     /\ SubSeq(s, k, k + Len(p) - 1) = p

\* Python: p in s
Contains(p, s) == \E k \in 1..Len(s) : OccursAt(p, s, k)

\* Python: a < b on str
RECURSIVE StrLess(_, _)
StrLess(a, b) ==
    IF b = "" THEN FALSE
    ELSE IF a = "" THEN TRUE
    ELSE LET ca == Ord(SubSeq(a, 1, 1))
             cb == Ord(SubSeq(b, 1, 1))
         IN  IF ca # cb THEN ca < cb
             ELSE StrLess(SubSeq(a, 2, Len(a)), SubSeq(b, 2, Len(b)))

-----------------------------------------------------------------------------
(* Module constants *)

SKIP_PATTERNS ==
    << "-mega", "-primal", "-gmax", "-cap", "-belle", "-phd", "-rock-star",
       "-libre", "-pop-star", "-cosplay", "-starter", "-rainy", "-snowy",
       "-sunny", "-zen", "-origin", "-black", "-white", "-pirouette", "-battle-bond",
       "-ash", "-blade", "-complete", "-school", "-busted", "-dawn", "-ultra",
       "-necrozma-dusk", "-gulping", "-gorging", "-noice", "-crowned", "-eternamax",
       "-shadow", "-ice", "-hero", "-sprinting-build", "-gliding-build", "-limited-build",
       "-swimming-build", "-aquatic-mode", "-low-power-mode", "-cornerstone-mask",
       "-hearthflame-mask", "-wellspring-mask", "-stellar", "-terastal", "-glide-mode",
       "-dive-mode", "-kyogre-primal", "-groudon-primal", "-meteor", "necrozma-dusk", "-hangry",
       "-drive-mode" >>

\* The names the chains, the data source and the cache files below hold,
\* and what normalization makes of them.  The string functions are
\* tabulated over these names; any other name is computed directly.
Names ==
    { "", "rattata", "rattata-alola", "raticate", "raticate-alola",
      "raticate-totem-alola", "meowth", "meowth-alola", "meowth-galar",
      "meowth-gmax", "persian", "persian-alola", "perrserker", "basculin",
      "basculin-red-striped", "basculin-blue-striped", "basculin-white-striped",
      "eevee", "eevee-starter", "mime-jr", "mr-mime", "mr-mime-galar",
      "missingno", "iron-hero", "iron", "necrozma-dusk" }

\* any(pattern in f for pattern in SKIP_PATTERNS)
AnyPatternIn(f) == \E k \in 1..Len(SKIP_PATTERNS) : Contains(SKIP_PATTERNS[k], f)

SkippedNames == { n \in Names : AnyPatternIn(n) }

IsSkipped(f) == IF f \in Names THEN f \in SkippedNames ELSE AnyPatternIn(f)

\* normalize_species_name: the suffix list
suffixes ==
    << "-alola", "-galar", "-hisui", "-hisuian", "-paldea",
       "-totem", "-white-striped", "-red-striped", "-blue-striped" >> \o SKIP_PATTERNS

\* pattern.split(name)[0]: the text before the leftmost match of any suffix
SplitAtSuffix(name) ==
    LET hits == { k \in 1..Len(name) :
                    \E j \in 1..Len(suffixes) : OccursAt(suffixes[j], name, k) }
    IN  IF hits = {} THEN name ELSE SubSeq(name, 1, Min(hits) - 1)

NormalizedNames == { << n, SplitAtSuffix(n) >> : n \in Names }

normalize_species_name(name) ==
    IF name \in Names
    THEN (CHOOSE p \in NormalizedNames : p[1] = name)[2]
    ELSE SplitAtSuffix(name)

\* get_form_sort_key: "-".join(name.split("-")[1:]), "" without a hyphen
RegionOf(name) ==
    LET hy == { k \in 1..Len(name) : SubSeq(name, k, k) = "-" }
    IN  IF hy = {} THEN "" ELSE SubSeq(name, Min(hy) + 1, Len(name))

\* get_form_sort_key: region_priority.get(region, 99)
region_priority(region) ==
    CASE region = ""              -> 0
      [] region = "alola"         -> 1
      [] region = "galar"         -> 2
      [] region = "hisui"         -> 3
      [] region = "paldea"        -> 4
      [] region = "white-striped" -> 5
      [] region = "blue-striped"  -> 6
      [] region = "red-striped"   -> 7
      [] region = "totem"         -> 8
      [] OTHER                    -> 99

\* get_form_sort_key: the priority of a name, with the perrserker override
RegionPriorityOf(name) ==
    region_priority(IF name = "perrserker" THEN "galar" ELSE RegionOf(name))

Priorities == { << n, RegionPriorityOf(n) >> : n \in Names }

PriorityOf(name) ==
    IF name \in Names
    THEN (CHOOSE p \in Priorities : p[1] = name)[2]
    ELSE RegionPriorityOf(name)

NamesInOrder == { p \in Names \X Names : StrLess(p[1], p[2]) }

\* name comparison, the last component of the sort key
NameLess(a, b) ==
    IF a \in Names /\ b \in Names THEN << a, b >> \in NamesInOrder ELSE StrLess(a, b)

-----------------------------------------------------------------------------
(* The data source (PokeAPI), as one snapshot *)

\* float("inf"), above every entry_number
INF == 1000000

\* species the pokemon-species endpoint knows
Species == { "rattata", "raticate", "meowth", "persian", "perrserker",
             "basculin", "eevee", "mime-jr", "mr-mime", "missingno", "iron-hero" }

\* entry_number of the "national" pokedex in a species response
NationalDex(name) ==
    CASE name = "rattata"    -> 19
      [] name = "raticate"   -> 20
      [] name = "meowth"     -> 52
      [] name = "persian"    -> 53
      [] name = "mr-mime"    -> 122
      [] name = "eevee"      -> 133
      [] name = "mime-jr"    -> 439
      [] name = "basculin"   -> 550
      [] name = "perrserker" -> 863
      [] OTHER               -> INF

V(name, is_default) == [name |-> name, is_default |-> is_default]

\* data["varieties"] of a species response
Varieties(name) ==
    CASE name = "rattata"  -> << V("rattata", TRUE), V("rattata-alola", FALSE) >>
      [] name = "raticate" -> << V("raticate", TRUE), V("raticate-alola", FALSE),
                                 V("raticate-totem-alola", FALSE) >>
      [] name = "meowth"   -> << V("meowth", TRUE), V("meowth-alola", FALSE),
                                 V("meowth-galar", FALSE), V("meowth-gmax", FALSE) >>
      [] name = "persian"  -> << V("persian", TRUE), V("persian-alola", FALSE) >>
      [] name = "basculin" -> << V("basculin-red-striped", TRUE),
                                 V("basculin-blue-striped", FALSE),
                                 V("basculin-white-striped", FALSE) >>
      [] name = "eevee"    -> << V("eevee", TRUE), V("eevee-starter", FALSE) >>
      [] name = "mr-mime"  -> << V("mr-mime", TRUE), V("mr-mime-galar", FALSE) >>
      [] OTHER             -> << V(name, TRUE) >>

\* What requests.get + the pokedex_numbers loop yield for one species name:
\* an entry, a response without a national entry, or an exception.
Entry(n) == [kind |-> "entry", entry_number |-> n]
NoEntry  == [kind |-> "none", entry_number |-> INF]
Raises   == [kind |-> "error", entry_number |-> INF]

Lookup(src, name) == IF name \in DOMAIN src THEN src[name] ELSE Raises

\* The snapshot main runs against: species in dex_down answer without a
\* national entry, unknown names answer 404.
MainSource ==
    [ s \in Species |->
        IF s \in dex_down \/ NationalDex(s) = INF THEN NoEntry ELSE Entry(NationalDex(s)) ]

-----------------------------------------------------------------------------
(* Caches *)

Put(f, k, v) == [ x \in (DOMAIN f) \cup {k} |-> IF x = k THEN v ELSE f[x] ]

EmptyCache == [ x \in {} |-> INF ]

API_BASE == "https://pokeapi.co/api/v2/"

SpeciesUrl(name) == API_BASE \o "pokemon-species/" \o name \o "/"

\* species_url.rstrip('/')
RECURSIVE RStripSlash(_)
RStripSlash(s) ==
    IF s # "" /\ SubSeq(s, Len(s), Len(s)) = "/"
    THEN RStripSlash(SubSeq(s, 1, Len(s) - 1))
    ELSE s

\* species_url.rstrip('/').split("/")[-1]
LastSegment(url) ==
    LET s  == RStripSlash(url)
        sl == { k \in 1..Len(s) : SubSeq(s, k, k) = "/" }
    IN  IF sl = {} THEN s
        ELSE SubSeq(s, (CHOOSE m \in sl : \A n \in sl : n <= m) + 1, Len(s))

\* The try block of get_species_dex_number and what follows it.
\* by_name: normalized_name is bound, so the except handler's print works;
\* by URL it is unbound and the handler itself raises.
\* a fallback of 0 in place of float("inf")
FetchDex_fallback_zero(cache, species_name, by_name, o) ==
    CASE o.kind = "entry" ->
           [cache |-> Put(cache, species_name, o.entry_number),
            ret |-> o.entry_number, raised |-> FALSE]
      [] o.kind = "none" \/ by_name ->
           [cache |-> Put(cache, species_name, 0), ret |-> 0, raised |-> FALSE]
      [] OTHER ->
           [cache |-> cache, ret |-> INF, raised |-> TRUE]

\* o is what the request for species_name yields.
FetchDex(cache, species_name, by_name, o) ==
    CASE o.kind = "entry" ->
           [cache |-> Put(cache, species_name, o.entry_number),
            ret |-> o.entry_number, raised |-> FALSE]
      [] o.kind = "none" \/ by_name ->
           [cache |-> Put(cache, species_name, INF), ret |-> INF, raised |-> FALSE]
      [] OTHER ->
           [cache |-> cache, ret |-> INF, raised |-> TRUE]

\* species_cache[species_name] = <r>; return species_cache[species_name]
CacheAs(r, species_name) ==
    [cache |-> Put(r.cache, species_name, r.ret), ret |-> r.ret, raised |-> FALSE]

Cached(cache, name) == [cache |-> cache, ret |-> cache[name], raised |-> FALSE]

\* get_species_dex_number(species_url, species_name); None is "".
RECURSIVE get_species_dex_number(_, _, _, _)
\* the species_name branch, past the cache check
ByName(cache, species_name, normalized_name, src) ==
    IF normalized_name # species_name
    THEN CacheAs(get_species_dex_number(cache, "", normalized_name, src), species_name)
    ELSE FetchDex(cache, species_name, TRUE, Lookup(src, species_name))

\* the species_url branch
ByUrl(cache, name, src) ==
    IF name \in DOMAIN cache
    THEN Cached(cache, name)
    ELSE FetchDex(cache, name, FALSE, Lookup(src, name))

\* get_species_dex_number with the species_name cache check dropped
get_species_dex_number_refetch(cache, species_url, species_name, src) ==
    IF species_name # ""
    THEN ByName(cache, species_name, normalize_species_name(species_name), src)
    ELSE IF species_url # ""
    THEN ByUrl(cache, LastSegment(species_url), src)
    ELSE [cache |-> cache, ret |-> INF, raised |-> FALSE]

get_species_dex_number(cache, species_url, species_name, src) ==
    IF species_name # ""
    THEN IF species_name \in DOMAIN cache
         THEN Cached(cache, species_name)
         ELSE ByName(cache, species_name, normalize_species_name(species_name), src)
    ELSE IF species_url # ""
    THEN ByUrl(cache, LastSegment(species_url), src)
    ELSE [cache |-> cache, ret |-> INF, raised |-> FALSE]

\* get_variants: the cached set, or the filtered non-default varieties;
\* raised when the request (or data["varieties"]) raises.
get_variants(vcache, species_name) ==
    IF species_name \in DOMAIN vcache
    THEN [raised |-> FALSE, fresh |-> FALSE, variants |-> Range(vcache[species_name])]
    ELSE IF species_name \notin Species \/ species_name \in var_down
    THEN [raised |-> TRUE, fresh |-> FALSE, variants |-> {}]
    ELSE LET vs == Varieties(species_name)
         IN  [raised |-> FALSE, fresh |-> TRUE,
              variants |-> { vs[k].name : k \in { j \in 1..Len(vs) :
                                 ~vs[j].is_default /\ ~IsSkipped(vs[j].name) } }]

\* the orders in which a set can be listed
ListsOf(S) == { s \in [1..Cardinality(S) -> S] : Range(s) = S }

-----------------------------------------------------------------------------
(* Sort keys and format_family *)

\* get_form_sort_key: (priority, dex, name), and the rank table after the call
KeyOf(name, r) == [key |-> << PriorityOf(name), r.ret, name >>, cache |-> r.cache]

get_form_sort_key(cache, name) ==
    KeyOf(name, get_species_dex_number(cache, "", name, MainSource))

\* Python tuple comparison of two sort keys
KeyLess(a, b) ==
    \/ a[1] < b[1]
    \/ a[1] = b[1] /\ a[2] < b[2]
    \/ a[1] = b[1] /\ a[2] = b[2] /\ NameLess(a[3], b[3])

\* list(set(...)): one listing of a set
RECURSIVE SetToSeq(_)
SetToSeq(S) ==
    IF S = {} THEN << >>
    ELSE LET x == CHOOSE x \in S : TRUE IN << x >> \o SetToSeq(S \ {x})

\* The keys list.sort computes, in list order, threading the rank table.
RECURSIVE KeysOf(_, _)
PrependKey(key, rest) == [keys |-> << key >> \o rest.keys, cache |-> rest.cache]

KeysAfter(k, forms) == PrependKey(k.key, KeysOf(k.cache, forms))

KeysOf(cache, forms) ==
    IF forms = << >> THEN [keys |-> << >>, cache |-> cache]
    ELSE KeysAfter(get_form_sort_key(cache, Head(forms)), Tail(forms))

\* stable insertion of a key into an ascending list of keys
RECURSIVE InsertKey(_, _)
InsertKey(sorted, k) ==
    IF sorted = << >> THEN << k >>
    ELSE IF KeyLess(k, Head(sorted)) THEN << k >> \o sorted
    ELSE << Head(sorted) >> \o InsertKey(Tail(sorted), k)

\* forms.sort(key=get_form_sort_key), as the sorted keys
RECURSIVE SortKeys(_)
SortKeys(keys) ==
    IF keys = << >> THEN << >>
    ELSE InsertKey(SortKeys(SubSeq(keys, 1, Len(keys) - 1)), keys[Len(keys)])


NamesOfKeys(sorted) == [ k \in 1..Len(sorted) |-> sorted[k][3] ]

SortedStage(ks) == [forms |-> NamesOfKeys(SortKeys(ks.keys)), cache |-> ks.cache]

\* forms = list(stages[stage]): duplicates kept
Dedupe_keeps_duplicates(names) == names

\* forms = list(set(stages[stage]))
Dedupe(names) == SetToSeq(Range(names))

\* the filter of format_family left out
Eligible_unfiltered(forms) == forms

\* forms = [f for f in forms if not any(pattern in f ...)]
Eligible(forms) == SelectSeq(forms, LAMBDA f : ~IsSkipped(f))

\* One stage of format_family: dedupe, filter, sort.
FormatStage(cache, names) == SortedStage(KeysOf(cache, Eligible(Dedupe(names))))

\* format_family(stages): stages in ascending order, flattened
RECURSIVE FormatFrom(_, _, _)
PrependStage(forms, rest) == [flat |-> forms \o rest.flat, cache |-> rest.cache]

FormatAfter(stgs, s, stage) == PrependStage(s.forms, FormatFrom(stgs, s.cache, stage + 1))

FormatFrom(stgs, cache, stage) ==
    IF stage \notin DOMAIN stgs THEN [flat |-> << >>, cache |-> cache]
    ELSE FormatAfter(stgs, FormatStage(cache, stgs[stage]), stage)

format_family(stgs, cache) == FormatFrom(stgs, cache, 0)

-----------------------------------------------------------------------------
(* Evolution chains *)

\* a chain node: node["species"]["name"] and node["evolves_to"], the
\* latter as indices into the chain's node list; the root is node 1
N(name, kids) == [has_species |-> TRUE, name |-> name, evolves_to |-> kids]

\* a node without "species"
Malformed(kids) == [has_species |-> FALSE, name |-> "", evolves_to |-> kids]

ChainPool ==
    { << N("rattata", <<2>>), N("raticate", << >>) >>,
      << N("meowth", <<2, 3>>), N("persian", << >>), N("perrserker", << >>) >>,
      << N("mime-jr", <<2>>), N("mr-mime", <<3>>), N("missingno", << >>) >>,
      << N("basculin", << >>) >>,
      << N("eevee", << >>) >>,
      << N("missingno", << >>) >>,
      << N("eevee", <<2>>), Malformed(<< >>) >>,
      << N("iron-hero", << >>) >>,
      << N("iron-hero", <<2>>), N("eevee", << >>) >> }

\* how many chains get_all_evolution_chains returns at most
MaxChains == 2

ChainLists == UNION { [1..n -> ChainPool] : n \in 0..MaxChains }

\* species whose lookups can be down in a snapshot
DexDownCandidates == { "raticate", "eevee" }
VarDownCandidates == { "raticate" }

\* species_cache.json as earlier runs can have left it
SpeciesCacheFiles ==
    { EmptyCache,
      [ x \in {"rattata", "eevee"} |-> IF x = "rattata" THEN 19 ELSE INF ] }

\* variant_cache.json as earlier runs (of this or an earlier version of the
\* script, with a shorter skip list) can have left it
VariantCacheFiles ==
    { EmptyCache,
      [ x \in {"eevee", "rattata"} |->
          IF x = "eevee" THEN << "eevee-starter" >>
          ELSE << "rattata-alola", "rattata" >> ] }

EmptyStages == [ k \in {} |-> << >> ]

NoCall == [by |-> "none", name |-> "", cached |-> FALSE, ret |-> INF, raised |-> FALSE]

-----------------------------------------------------------------------------
(* main *)

Init ==
    /\ chains \in ChainLists
    /\ dex_down \in SUBSET DexDownCandidates
    /\ var_down \in SUBSET VarDownCandidates
    /\ species_cache_file \in SpeciesCacheFiles
    /\ variant_cache_file \in VariantCacheFiles
    /\ species_cache = species_cache_file
    /\ variant_cache = variant_cache_file
    /\ pc = "loop"
    /\ i = 0
    /\ queue = << >>
    /\ stages = EmptyStages
    /\ visited = << >>
    /\ dex_num = INF
    /\ species_list = << >>
    /\ all_species = << >>
    /\ errors = << >>
    /\ report = << >>
    /\ call = NoCall

Source == << chains, dex_down, var_down, species_cache_file, variant_cache_file >>

\* for i, chain in enumerate(chains, start=1): ... parse_evolution_chain's
\* queue = [(chain, 0)]
StartChain ==
    /\ pc = "loop"
    /\ i < Len(chains)
    /\ i' = i + 1
    /\ queue' = << <<1, 0>> >>
    /\ stages' = EmptyStages
    /\ visited' = << >>
    /\ pc' = "bfs"
    /\ UNCHANGED << Source, species_cache, variant_cache, dex_num, species_list,
                    all_species, errors, report, call >>

\* no try/except around the iteration: the exception ends main
ChainFails_uncaught(exception) ==
    /\ errors' = Append(errors, [chain |-> i, exception |-> exception])
    /\ queue' = << >>
    /\ stages' = EmptyStages
    /\ visited' = << >>
    /\ pc' = "save"
    /\ UNCHANGED << Source, species_cache, i, dex_num, species_list,
                    all_species, report, call >>

\* except Exception as e: print(...); the iteration's locals are gone
ChainFails(exception) ==
    /\ errors' = Append(errors, [chain |-> i, exception |-> exception])
    /\ queue' = << >>
    /\ stages' = EmptyStages
    /\ visited' = << >>
    /\ pc' = "loop"
    /\ UNCHANGED << Source, species_cache, i, dex_num, species_list,
                    all_species, report, call >>

\* stages[stage].append / .extend
AddTo(stgs, stage, items) ==
    [ k \in (DOMAIN stgs) \cup {stage} |->
        IF k = stage
        THEN (IF stage \in DOMAIN stgs THEN stgs[stage] ELSE << >>) \o items
        ELSE stgs[k] ]

\* group_by_stage(chain_node, stage, stages) over a chain whose nodes all
\* have a species: the node's name, then its evolutions in order
RECURSIVE group_by_stage(_, _, _, _)
RECURSIVE GroupEvolutions(_, _, _, _)
GroupEvolutions(chain, evos, stage, stgs) ==
    IF evos = << >> THEN stgs
    ELSE GroupEvolutions(chain, Tail(evos), stage,
                         group_by_stage(chain, Head(evos), stage + 1, stgs))

group_by_stage(chain, node, stage, stgs) ==
    GroupEvolutions(chain, chain[node].evolves_to, stage,
                    AddTo(stgs, stage, << chain[node].name >>))

\* the evolutions enqueued with their parent's stage
Enqueue_same_stage(node, stage) ==
    [ k \in 1..Len(node.evolves_to) |-> << node.evolves_to[k], stage >> ]

\* for evo in node.get("evolves_to", []): queue.append((evo, stage + 1))
Enqueue(node, stage) ==
    [ k \in 1..Len(node.evolves_to) |-> << node.evolves_to[k], stage + 1 >> ]

\* variants = get_variants(name); stages[stage].extend(variants); enqueue
Visit(item, node, gv) ==
    \E listing \in ListsOf(gv.variants) :
       /\ variant_cache' = IF gv.fresh
                           THEN Put(variant_cache, node.name, listing)
                           ELSE variant_cache
       /\ stages' = AddTo(stages, item[2], << node.name >> \o listing)
       /\ queue' = Tail(queue) \o Enqueue(node, item[2])
       /\ visited' = Append(visited, item)
       /\ UNCHANGED << Source, species_cache, pc, i, dex_num, species_list,
                       all_species, errors, report, call >>

\* node, stage = queue.pop(0); name = node["species"]["name"]; ...
Pop(item, node) ==
    IF ~node.has_species THEN "KeyError"
    ELSE IF get_variants(variant_cache, node.name).raised THEN "get_variants"
    ELSE "ok"

\* One turn of parse_evolution_chain's while loop.
BfsStep ==
    /\ pc = "bfs"
    /\ queue # << >>
    /\ \E outcome \in { Pop(Head(queue), chains[i][Head(queue)[1]]) } :
         IF outcome = "ok"
         THEN Visit(Head(queue), chains[i][Head(queue)[1]],
                    get_variants(variant_cache, chains[i][Head(queue)[1]].name))
         ELSE ChainFails(outcome) /\ UNCHANGED variant_cache

\* main's append of what get_sorted_family returned
Appended(flat, r) ==
    /\ species_cache' = r.cache
    /\ dex_num' = r.ret
    /\ species_list' = flat
    /\ all_species' = Append(all_species, << r.ret, flat >>)
    /\ queue' = << >>
    /\ stages' = EmptyStages
    /\ visited' = << >>
    /\ pc' = "loop"
    /\ UNCHANGED << Source, variant_cache, i, errors, report, call >>

\* dex_number = get_species_dex_number(species_name=flattened[0])
HeadOf(f) ==
    IF f.flat = << >>
    THEN ChainFails("IndexError") /\ UNCHANGED variant_cache
    ELSE Appended(f.flat, get_species_dex_number(f.cache, "", f.flat[1], MainSource))

\* get_sorted_family after the traversal, and main's append
AssembleFamily ==
    /\ pc = "bfs"
    /\ queue = << >>
    /\ HeadOf(format_family(stages, species_cache))

\* an insertion that puts a family before the families of equal x[0]
RECURSIVE InsertFamily_before_equals(_, _)
InsertFamily_before_equals(sorted, fam) ==
    IF sorted = << >> THEN << fam >>
    ELSE IF fam[1] <= Head(sorted)[1] THEN << fam >> \o sorted
    ELSE << Head(sorted) >> \o InsertFamily_before_equals(Tail(sorted), fam)

\* stable insertion of a family into a list ascending by x[0]
RECURSIVE InsertFamily(_, _)
InsertFamily(sorted, fam) ==
    IF sorted = << >> THEN << fam >>
    ELSE IF fam[1] < Head(sorted)[1] THEN << fam >> \o sorted
    ELSE << Head(sorted) >> \o InsertFamily(Tail(sorted), fam)

\* all_species.sort(key=lambda x: x[0])
RECURSIVE SortFamilies(_)
SortFamilies(fams) ==
    IF fams = << >> THEN << >>
    ELSE InsertFamily(SortFamilies(SubSeq(fams, 1, Len(fams) - 1)), fams[Len(fams)])

\* the lines written: every species of every family, in order
RECURSIVE Flatten(_)
Flatten(fams) ==
    IF fams = << >> THEN << >> ELSE Head(fams)[2] \o Flatten(Tail(fams))

\* after the loop: sort the families and write pokedex_by_family.txt
WriteReport ==
    /\ pc = "loop"
    /\ i = Len(chains)
    /\ all_species' = SortFamilies(all_species)
    /\ report' = Flatten(all_species')
    /\ pc' = "save"
    /\ UNCHANGED << Source, species_cache, variant_cache, i, queue, stages, visited,
                    dex_num, species_list, errors, call >>

\* json.dump of both caches
SaveCaches ==
    /\ pc = "save"
    /\ species_cache_file' = species_cache
    /\ variant_cache_file' = variant_cache
    /\ pc' = "done"
    /\ UNCHANGED << chains, dex_down, var_down, species_cache, variant_cache, i, queue,
                    stages, visited, dex_num, species_list, all_species, errors,
                    report, call >>

Next ==
    \/ StartChain
    \/ BfsStep
    \/ AssembleFamily
    \/ WriteReport
    \/ SaveCaches

Spec == Init /\ [][Next]_vars

-----------------------------------------------------------------------------
(* The rank resolver on its own: any sequence of get_species_dex_number     *)
(* calls, by name or by URL, each request answered as the data source       *)
(* pleases at that moment.                                                  *)

\* the identities asked for
RankNames == { "rattata", "rattata-alola", "mr-mime", "missingno", "necrozma-dusk" }

\* what one request can yield
Outcomes == { Entry(19), Entry(122), NoEntry, Raises }

\* a data source answering every request with o
Answering(o) == [ n \in Names |-> o ]

InitRank ==
    /\ chains = << >>
    /\ dex_down = {}
    /\ var_down = {}
    /\ species_cache_file \in SpeciesCacheFiles
    /\ variant_cache_file = EmptyCache
    /\ species_cache = species_cache_file
    /\ variant_cache = variant_cache_file
    /\ pc = "rank"
    /\ i = 0
    /\ queue = << >>
    /\ stages = EmptyStages
    /\ visited = << >>
    /\ dex_num = INF
    /\ species_list = << >>
    /\ all_species = << >>
    /\ errors = << >>
    /\ report = << >>
    /\ call = NoCall

Returned(by, name, r) ==
    /\ species_cache' = r.cache
    /\ call' = [by |-> by, name |-> name, cached |-> name \in DOMAIN species_cache,
                ret |-> r.ret, raised |-> r.raised]
    /\ UNCHANGED << Source, variant_cache, pc, i, queue, stages, visited, dex_num,
                    species_list, all_species, errors, report >>

\* get_species_dex_number(species_name=name)
RankByName ==
    /\ pc = "rank"
    /\ \E name \in RankNames, o \in Outcomes :
         Returned("name", name, get_species_dex_number(species_cache, "", name, Answering(o)))

\* get_species_dex_number(species_url=...)
RankByUrl ==
    /\ pc = "rank"
    /\ \E name \in RankNames, o \in Outcomes :
         Returned("url", name,
                  get_species_dex_number(species_cache, SpeciesUrl(name), "", Answering(o)))

\* get_species_dex_number()
RankOfNothing ==
    /\ pc = "rank"
    /\ Returned("none", "", get_species_dex_number(species_cache, "", "", Answering(Raises)))

NextRank ==
    \/ RankByName
    \/ RankByUrl
    \/ RankOfNothing

SpecRank == InitRank /\ [][NextRank]_vars

-----------------------------------------------------------------------------
(* Claims *)

\* C1: once an identity has an entry in species_cache, no call of
\* get_species_dex_number (by name, by URL, recursive, failing or not)
\* removes or changes it, and a call for an identity that has an entry
\* returns exactly the stored value, the fallback sentinel included.
C1_EntriesAreNeverOverwritten ==
    [][ /\ \A x \in DOMAIN species_cache :
             x \in DOMAIN species_cache' /\ species_cache'[x] = species_cache[x]
        /\ (call'.by # "none" /\ call'.name \in DOMAIN species_cache)
             => (~call'.raised /\ call'.ret = species_cache[call'.name]) ]_vars

\* C1 witness: a call for an identity whose stored value is the sentinel
\* returned the sentinel from the table.
C1_Witness ==
    /\ call.by = "url"
    /\ call.cached
    /\ call.ret = INF
    /\ call.name = "necrozma-dusk"

\* C5: no identity of an assembled family, and so no line of the report,
\* contains a SKIP_PATTERNS entry, whatever the chain (an ineligible root
\* included) and whatever the restored variant cache holds.
C5_NoSkippedIdentityInAnyFamily ==
    /\ \A k \in 1..Len(all_species) :
         \A j \in 1..Len(all_species[k][2]) : ~IsSkipped(all_species[k][2][j])
    /\ \A j \in 1..Len(species_list) : ~IsSkipped(species_list[j])
    /\ \A j \in 1..Len(report) : ~IsSkipped(report[j])

\* C5 witness: the restored variant cache holds eevee-starter, the chain's
\* root iron-hero is ineligible, and the report has been written.
C5_Witness ==
    /\ pc = "save"
    /\ "eevee" \in DOMAIN variant_cache_file
    /\ "eevee-starter" \in Range(variant_cache_file["eevee"])
    /\ Len(chains) = 1
    /\ chains[1][1].name = "iron-hero"
    /\ report = << "eevee" >>

\* the eligible identities of a stage, as a set
StageSet(stgs, k) == { f \in Range(stgs[k]) : ~IsSkipped(f) }

\* how many identities the stages before k contribute
RECURSIVE StageOffset(_, _)
StageOffset(stgs, k) ==
    IF k = 0 THEN 0 ELSE StageOffset(stgs, k - 1) + Cardinality(StageSet(stgs, k - 1))

\* (regionPriority, rank, identity) of x under a rank table, strictly ascending
StrictlyBefore(cache, x, y) ==
    \/ PriorityOf(x) < PriorityOf(y)
    \/ PriorityOf(x) = PriorityOf(y) /\ cache[x] < cache[y]
    \/ PriorityOf(x) = PriorityOf(y) /\ cache[x] = cache[y] /\ NameLess(x, y)

\* fam is, stage after stage, the eligible set of the stage in strictly
\* ascending key order
IsCanonicalFamily(stgs, cache, fam) ==
    /\ \A k \in DOMAIN stgs : k = 0 \/ k - 1 \in DOMAIN stgs
    /\ Len(fam) = StageOffset(stgs, Cardinality(DOMAIN stgs))
    /\ \A k \in DOMAIN stgs :
         LET off == StageOffset(stgs, k)
             n   == Cardinality(StageSet(stgs, k))
         IN  /\ { fam[off + m] : m \in 1..n } = StageSet(stgs, k)
             /\ \A m \in 1..(n - 1) :
                  /\ fam[off + m] \in DOMAIN cache
                  /\ fam[off + m + 1] \in DOMAIN cache
                  /\ StrictlyBefore(cache, fam[off + m], fam[off + m + 1])

\* C7: the family format_family returns is determined by the set of
\* identities of each stage and the rank table: stage after stage, each
\* eligible identity of the stage exactly once, in strictly ascending
\* (regionPriority, rank, identity) order, whatever the order and the
\* multiplicity in which the traversal inserted them.
C7_FamilyDependsOnStageSetsOnly ==
    [][ (pc = "bfs" /\ pc' = "loop" /\ Len(all_species') = Len(all_species) + 1)
          => /\ IsCanonicalFamily(stages, species_cache', species_list')
             /\ all_species'[Len(all_species')][2] = species_list' ]_vars

\* C7 witness: a family of two stages was assembled from stage lists that
\* held rattata twice (once from the restored variant cache).
C7_Witness ==
    /\ pc = "loop"
    /\ "rattata" \in DOMAIN variant_cache_file
    /\ "rattata" \in Range(variant_cache_file["rattata"])
    /\ species_list = << "rattata", "rattata-alola", "raticate", "raticate-alola",
                         "raticate-totem-alola" >>
    /\ all_species # << >>
    /\ all_species[Len(all_species)][2] = species_list

\* where family k starts in the report
RECURSIVE LinesBefore(_, _)
LinesBefore(fams, k) ==
    IF k = 1 THEN 0 ELSE LinesBefore(fams, k - 1) + Len(fams[k - 1][2])

\* after is before reordered by pi
ReorderedBy(pi, before, after) ==
    /\ Len(after) = Len(before)
    /\ \A k \in 1..Len(after) : after[k] = before[pi[k]]

\* C8: writing the report orders the assembled families by non-decreasing
\* headRank, families of equal headRank (two sentinels included) staying in
\* the order their chains were enumerated, and writes each family's lines
\* contiguously in the family's own order.
C8_ReportIsStableByHeadRank ==
    [][ (pc = "loop" /\ pc' = "save")
          => /\ \E pi \in ListsOf(1..Len(all_species)) :
                  /\ ReorderedBy(pi, all_species, all_species')
                  /\ \A k, l \in 1..Len(all_species) :
                       k < l => /\ all_species'[k][1] <= all_species'[l][1]
                                /\ all_species'[k][1] = all_species'[l][1] => pi[k] < pi[l]
             /\ Len(report') = LinesBefore(all_species', Len(all_species') + 1)
             /\ \A k \in 1..Len(all_species') :
                  \A j \in 1..Len(all_species'[k][2]) :
                    report'[LinesBefore(all_species', k) + j] = all_species'[k][2][j] ]_vars

\* C8 witness: two families whose headRank is the sentinel, written in the
\* order of their chains.
C8_Witness ==
    /\ pc = "save"
    /\ Len(chains) = 2
    /\ chains[1][1].name = "missingno"
    /\ chains[2][1].name = "eevee"
    /\ all_species = << << INF, << "missingno" >> >>, << INF, << "eevee" >> >> >>
    /\ report = << "missingno", "eevee" >>

\* the node a node evolves from (0 for the root)
ParentOf(chain, n) ==
    IF \E m \in 1..Len(chain) : n \in Range(chain[m].evolves_to)
    THEN CHOOSE m \in 1..Len(chain) : n \in Range(chain[m].evolves_to)
    ELSE 0

RECURSIVE DepthOf(_, _)
DepthOf(chain, n) ==
    IF ParentOf(chain, n) = 0 THEN 0 ELSE DepthOf(chain, ParentOf(chain, n)) + 1

WellFormed(chain) == \A n \in 1..Len(chain) : chain[n].has_species

\* the names of the nodes the traversal has put in stage k
VisitedAt(chain, k) ==
    { chain[visited[a][1]].name : a \in { b \in 1..Len(visited) : visited[b][2] = k } }

\* C6: the breadth-first traversal never visits a node twice and ends after
\* at most one turn per node; a node at depth k is visited with stage k and
\* its name put in stages[k]; every node visited with stage k+1 is a direct
\* evolution of a node visited with stage k, and only the root is visited
\* with stage 0; when the queue is empty every node has been visited.  The
\* recursive group_by_stage groups the same names by the same stages.
C6_TraversalStagesAreDepths ==
    pc = "bfs" =>
      LET chain == chains[i]
      IN  /\ Len(visited) + Len(queue) <= Len(chain)
          /\ \A a, b \in 1..Len(visited) : a # b => visited[a][1] # visited[b][1]
          /\ \A a \in 1..Len(visited), b \in 1..Len(queue) : visited[a][1] # queue[b][1]
          /\ \A a \in 1..Len(visited) :
               /\ visited[a][2] = DepthOf(chain, visited[a][1])
               /\ visited[a][2] \in DOMAIN stages
               /\ chain[visited[a][1]].name \in Range(stages[visited[a][2]])
               /\ visited[a][2] = 0 => visited[a][1] = 1
               /\ visited[a][2] > 0 =>
                    \E b \in 1..Len(visited) :
                      /\ visited[b][1] = ParentOf(chain, visited[a][1])
                      /\ visited[b][2] = visited[a][2] - 1
          /\ (queue = << >>) =>
               /\ { visited[a][1] : a \in 1..Len(visited) } = 1..Len(chain)
               /\ LET grouped == group_by_stage(chain, 1, 0, EmptyStages)
                  IN  /\ DOMAIN grouped = DOMAIN stages
                      /\ grouped[0] = << chain[1].name >>
                      /\ \A k \in DOMAIN grouped : Range(grouped[k]) = VisitedAt(chain, k)

\* C6 witness: the traversal of mime-jr -> mr-mime -> missingno has ended
\* with three stages.
C6_Witness ==
    /\ pc = "bfs"
    /\ queue = << >>
    /\ Len(visited) = 3
    /\ DOMAIN stages = 0..2
    /\ chains[i][1].name = "mime-jr"
    /\ "mr-mime-galar" \in Range(stages[1])

\* What one chain yields when it is assembled alone, from the cache files
\* as they were restored: its stage sets (each species with its variants) ...
AloneStages(chain) ==
    LET grouped == group_by_stage(chain, 1, 0, EmptyStages)
    IN  [ k \in DOMAIN grouped |->
            SetToSeq(UNION { {grouped[k][m]}
                               \cup get_variants(variant_cache_file, grouped[k][m]).variants :
                             m \in 1..Len(grouped[k]) }) ]

\* ... whether its assembly fails ...
AloneFails(chain) ==
    \/ ~WellFormed(chain)
    \/ \E n \in 1..Len(chain) : get_variants(variant_cache_file, chain[n].name).raised
    \/ format_family(AloneStages(chain), species_cache_file).flat = << >>

\* ... and the family it contributes otherwise.
AloneFamily(chain) ==
    LET f == format_family(AloneStages(chain), species_cache_file)
    IN  << get_species_dex_number(f.cache, "", f.flat[1], MainSource).ret, f.flat >>

\* the families of the first n chains, each assembled alone, failures left out
RECURSIVE AloneFamilies(_)
AloneFamilies(n) ==
    IF n = 0 THEN << >>
    ELSE IF AloneFails(chains[n]) THEN AloneFamilies(n - 1)
    ELSE Append(AloneFamilies(n - 1), AloneFamily(chains[n]))

\* C2: a chain whose assembly fails contributes nothing to the report and
\* does not end the run: when the report has been written, it holds, sorted,
\* exactly the families the other chains yield when each is assembled alone,
\* and one error is logged for each failing chain.
C2_FailingChainsAreIsolated ==
    pc = "save" =>
      /\ all_species = SortFamilies(AloneFamilies(Len(chains)))
      /\ report = Flatten(all_species)
      /\ { errors[j].chain : j \in 1..Len(errors) }
           = { k \in 1..Len(chains) : AloneFails(chains[k]) }
      /\ Len(errors) + Len(all_species) = Len(chains)

\* C2 witness: a malformed chain that had already cached eevee's variants
\* was followed by the eevee chain, whose family is in the report.
C2_Witness ==
    /\ pc = "save"
    /\ Len(chains) = 2
    /\ ~WellFormed(chains[1])
    /\ chains[2] = << N("eevee", << >>) >>
    /\ variant_cache_file = EmptyCache
    /\ errors = << [chain |-> 1, exception |-> "KeyError"] >>
    /\ report = << "eevee" >>

\* C3: a chain in whose traversal a variety request fails (the species is
\* not in the restored variant cache and its request raises) still has its
\* family in the report, with at least its root.
C3_VarietyFailureKeepsTheFamily ==
    pc = "save" =>
      \A k \in 1..Len(chains) :
        ( /\ WellFormed(chains[k])
          /\ ~IsSkipped(chains[k][1].name)
          /\ \E n \in 1..Len(chains[k]) :
               /\ chains[k][n].name \in var_down
               /\ chains[k][n].name \notin DOMAIN variant_cache_file )
        => chains[k][1].name \in Range(report)

\* the identities whose rank is the sentinel / a resolved number
HasSentinel(fam) == \E j \in 1..Len(fam[2]) : species_cache[fam[2][j]] = INF

AllResolved(fam) == \A j \in 1..Len(fam[2]) : species_cache[fam[2][j]] # INF

C9_HeadRankIsRootRank ==
    ( /\ pc = "loop"
      /\ i >= 1
      /\ WellFormed(chains[i])
      /\ \A j \in 1..Len(errors) : errors[j].chain # i )
    => dex_num = get_species_dex_number(species_cache, "", chains[i][1].name, MainSource).ret

\* C10: every non-default variety of a species whose region priority is one
\* of 1..8 and whose base passes the filter is kept by get_variants.
C10_PriorityFormsAreEligible ==
    pc # "done" =>
      \A s \in (DOMAIN variant_cache) \ (DOMAIN variant_cache_file) :
        \A k \in 1..Len(Varieties(s)) :
          ( /\ ~Varieties(s)[k].is_default
            /\ RegionPriorityOf(Varieties(s)[k].name) \in 1..8
            /\ ~IsSkipped(s) )
          => Varieties(s)[k].name \in Range(variant_cache[s])

====
